---- MODULE Spec2Model ----
(***************************************************************************)
(* Model of catkin_tools_python/job.py: the stage planner                  *)
(* (create_python_build_job) and the file helpers it binds as function     *)
(* stages (renamepath, fix_shebangs, fix_python3_install_space,            *)
(* strip_ccache).                                                          *)
(*                                                                         *)
(* Python str/bytes values are sequences of one-character strings, so      *)
(* that substring search, replacement and splitting are computed the way   *)
(* the code computes them. A character that a TLA+ string cannot hold is   *)
(* the element that spells its Python escape: "\\v" is the vertical tab     *)
(* 0x0B, "\\xa0" the no-break space, and so on.                             *)
(***************************************************************************)
EXTENDS Integers, Sequences, FiniteSets, TLC

VARIABLES
    PYTHON_EXEC,   \* job.py:38, the module global determine_python_exec rebinds
    calls,         \* package -> the planning call made for it: where it is
                   \* in create_python_build_job, its inputs, locals and result
    context,       \* the build context shared by the jobs of one build
    pc,            \* package -> number of stages of its job that have finished
    running,       \* package -> TRUE while stage pc+1 of its job runs
    tree,          \* fix_shebangs: file path -> bytes, the tree under pkg_dir
    tree0,         \* the tree before the last fix_shebangs pass
    written,       \* file paths the last fix_shebangs pass opened for writing
    passes,        \* number of fix_shebangs passes made
    python_exec,   \* fix_shebangs: the python_exec argument of the passes
    setup_sh,      \* fix_python3_install_space: setup.sh ([exists, contents])
    setup_sh0,     \* setup.sh before the call
    setup_call,    \* the call made: [made, old_python, new_python, writes, ret]
    fs,            \* renamepath: [src, dst], each [exists, kind, files]
    fs0,           \* the file system before the last renamepath call
    rename_ret,    \* result of the last renamepath call
    rename_prev,   \* result of the call before the last
    rename_calls   \* number of renamepath calls made

planVars   == <<PYTHON_EXEC, calls>>
execVars   == <<context, pc, running>>
shebangVars == <<tree, tree0, written, passes, python_exec>>
setupVars  == <<setup_sh, setup_sh0, setup_call>>
renameVars == <<fs, fs0, rename_ret, rename_prev, rename_calls>>
vars == <<PYTHON_EXEC, calls, context, pc, running, tree, tree0, written,
          passes, python_exec, setup_sh, setup_sh0, setup_call, fs, fs0,
          rename_ret, rename_prev, rename_calls>>

None == "None"

----------------------------------------------------------------------------
(* Python string primitives *)

\* s[i-1:].startswith(pat), positions counted from 1
StartsWithAt(s, i, pat) ==
    /\ i + Len(pat) - 1 <= Len(s)
    /\ \A k \in 1..Len(pat) : s[i + k - 1] = pat[k]

StartsWith(s, pat) == StartsWithAt(s, 1, pat)

\* s.endswith(suf)
EndsWith(s, suf) ==
    /\ Len(suf) <= Len(s)
    /\ StartsWithAt(s, Len(s) - Len(suf) + 1, suf)

\* pat in s
Contains(s, pat) == \E i \in 1..(Len(s) - Len(pat) + 1) : StartsWithAt(s, i, pat)

\* s[i-1:].replace(old, new, count): left to right, non-overlapping;
\* count = -1 replaces every occurrence
RECURSIVE ReplaceFrom(_, _, _, _, _)
ReplaceFrom(s, i, old, new, count) ==
    IF i > Len(s) THEN <<>>
    ELSE IF count # 0 /\ StartsWithAt(s, i, old)
         THEN new \o ReplaceFrom(s, i + Len(old), old, new, count - 1)
         ELSE <<s[i]>> \o ReplaceFrom(s, i + 1, old, new, count)

Replace(s, old, new) == ReplaceFrom(s, 1, old, new, -1)

ReplaceFirst(s, old, new) == ReplaceFrom(s, 1, old, new, 1)

\* the bytes that \s of a bytes pattern matches and bytes.split() separates
\* on: blank, \t, \n, \r, \f and the vertical tab
BytesWhitespace == {" ", "\t", "\n", "\r", "\f", "\\v"}

\* the characters str.split() separates on (str.isspace): the six above,
\* 0x1C-0x1F, 0x85, 0xA0 and the Unicode space separators
StrWhitespace ==
    BytesWhitespace \cup
    {"\\x1c", "\\x1d", "\\x1e", "\\x1f", "\\x85", "\\xa0", "\\u1680", "\\u2000",
     "\\u2001", "\\u2002", "\\u2003", "\\u2004", "\\u2005", "\\u2006", "\\u2007",
     "\\u2008", "\\u2009", "\\u200a", "\\u2028", "\\u2029", "\\u202f", "\\u205f",
     "\\u3000"}

\* s[i-1:].split() with cur the token being read: maximal runs of characters
\* outside the separators
RECURSIVE SplitFrom(_, _, _, _)
SplitFrom(s, i, cur, separators) ==
    IF i > Len(s) THEN (IF cur = <<>> THEN <<>> ELSE <<cur>>)
    ELSE IF s[i] \in separators
         THEN (IF cur = <<>> THEN <<>> ELSE <<cur>>)
              \o SplitFrom(s, i + 1, <<>>, separators)
         ELSE SplitFrom(s, i + 1, Append(cur, s[i]), separators)

\* str.split()
Split(s) == SplitFrom(s, 1, <<>>, StrWhitespace)

\* bytes.split()
BytesSplit(s) == SplitFrom(s, 1, <<>>, BytesWhitespace)

\* whether int(tok) accepts the token: an optional sign, then digits, single
\* underscores allowed between digits
IsInt(tok) ==
    LET body == IF tok # <<>> /\ tok[1] \in {"+", "-"} THEN Tail(tok) ELSE tok
        digit(c) == c \in {"0", "1", "2", "3", "4", "5", "6", "7", "8", "9"}
    IN  /\ body # <<>>
        /\ digit(body[1]) /\ digit(body[Len(body)])
        /\ \A k \in 1..Len(body) : digit(body[k]) \/ body[k] = "_"
        /\ \A k \in 1..(Len(body) - 1) : ~(body[k] = "_" /\ body[k + 1] = "_")

\* the value of a run of digits and underscores read after the value acc
RECURSIVE DigitsValue(_, _)
DigitsValue(body, acc) ==
    IF body = <<>> THEN acc
    ELSE IF body[1] = "_" THEN DigitsValue(Tail(body), acc)
    ELSE DigitsValue(Tail(body),
            10 * acc + (CHOOSE d \in 0..9 :
                          <<"0", "1", "2", "3", "4", "5", "6", "7", "8", "9">>[d + 1] = body[1]))

\* int(tok) for a token int() accepts
IntOf(tok) ==
    IF tok[1] = "-" THEN 0 - DigitsValue(Tail(tok), 0)
    ELSE IF tok[1] = "+" THEN DigitsValue(Tail(tok), 0)
    ELSE DigitsValue(tok, 0)

\* sep.join(parts)
RECURSIVE Join(_, _)
Join(sep, parts) ==
    IF parts = <<>> THEN <<>>
    ELSE IF Len(parts) = 1 THEN parts[1]
    ELSE parts[1] \o sep \o Join(sep, Tail(parts))

Digits == <<"0", "1", "2", "3", "4", "5", "6", "7", "8", "9">>

\* "%s" % n for an integer n
RECURSIVE Str(_)
Str(n) == IF n < 0 THEN <<"-">> \o Str(0 - n)
          ELSE IF n < 10 THEN <<Digits[n + 1]>>
          ELSE Str(n \div 10) \o <<Digits[(n % 10) + 1]>>

\* os.path.join(a, b)
path_join(a, b) ==
    IF b # <<>> /\ b[1] = "/" THEN b
    ELSE IF a = <<>> \/ a[Len(a)] = "/" THEN a \o b
    ELSE a \o <<"/">> \o b

----------------------------------------------------------------------------
(* Stage and Job descriptors *)

\* catkin_tools.execution.stages.FunctionStage(name, function, locked_resource, **kwargs)
FunctionStage(name, function, locked_resource, kwargs) ==
    [name |-> name, kind |-> "function", function |-> function, cmd |-> <<>>,
     cwd |-> <<>>, kwargs |-> kwargs, locked_resource |-> locked_resource]

\* catkin_tools.execution.stages.CommandStage(name, cmd, cwd, locked_resource)
CommandStage(name, cmd, cwd, locked_resource) ==
    [name |-> name, kind |-> "command", function |-> None, cmd |-> cmd,
     cwd |-> cwd, kwargs |-> <<>>, locked_resource |-> locked_resource]

\* catkin_tools.execution.jobs.Job(jid, deps, env, stages)
Job(jid, deps, env, stages) ==
    [jid |-> jid, deps |-> deps, env |-> env, stages |-> stages]

\* the context's per-package directory resolvers
package_build_space(ctx, package) == path_join(ctx.build_space_abs, package.name)

package_metadata_path(ctx, package) == path_join(ctx.metadata_abs, package.name)

package_dest_path(ctx, package) ==
    IF ctx.isolate_install THEN path_join(ctx.install_space_abs, package.name)
    ELSE ctx.install_space_abs

----------------------------------------------------------------------------
(* The machine the planner runs on *)

\* os.environ.get('PYTHON', sys.executable) at import time
DefaultPython == <<"/","u","s","r","/","b","i","n","/","p","y","t","h","o","n">>

\* which('rsync')
RSYNC_EXEC == <<"/","u","s","r","/","b","i","n","/","r","s","y","n","c">>

\* context.cmake_args of a build
CMakeArgChoices ==
    { << <<"-","D","C","M","A","K","E","_","B","U","I","L","D","_","T","Y","P","E","=","R","e","l","e","a","s","e">> >>,
      << <<"-","D","P","Y","T","H","O","N","_","E","X","E","C","U","T","A","B","L","E","=","/","o","p","t","/","p","y","3">> >>,
      << <<"-","D","C","M","A","K","E","_","B","U","I","L","D","_","T","Y","P","E","=","R","e","l","e","a","s","e">>, <<"-","D","P","Y","T","H","O","N","_","E","X","E","C","U","T","A","B","L","E","=","/","u","s","r","/","b","i","n","/","p","y","t","h","o","n","3",".","8">> >> }

\* how the version probe ends: the interpreter cannot be started, it exits
\* with a non-zero status, or it exits with 0 having printed output
ProbeOutcomes ==
    { [spawn |-> "missing", output |-> <<>>],
      [spawn |-> "failed", output |-> <<>>],
      [spawn |-> "ok", output |-> <<"2"," ","7","\n">>],
      [spawn |-> "ok", output |-> <<"3"," ","5","\n">>],
      [spawn |-> "ok", output |-> <<"3"," ","1","0","\n">>],
      [spawn |-> "ok", output |-> <<"3","\n">>],
      [spawn |-> "ok", output |-> <<"x"," ","y","\n">>],
      [spawn |-> "ok", output |-> <<>>] }

\* the package's setup.py
SetupPyChoices ==
    { [exists |-> FALSE, contents |-> <<>>],
      [exists |-> TRUE, contents |-> <<"f","r","o","m"," ","s","e","t","u","p","t","o","o","l","s"," ","i","m","p","o","r","t"," ","s","e","t","u","p","\n">>],
      [exists |-> TRUE, contents |-> <<"f","r","o","m"," ","d","i","s","t","u","t","i","l","s",".","c","o","r","e"," ","i","m","p","o","r","t"," ","s","e","t","u","p","\n">>] }

\* what get_python_install_dir() returns on the platform
InstallDirChoices ==
    { <<"l","i","b","/","p","y","t","h","o","n","2",".","7","/","s","i","t","e","-","p","a","c","k","a","g","e","s">>,
      <<"l","i","b","/","p","y","t","h","o","n","3","/","d","i","s","t","-","p","a","c","k","a","g","e","s">>,
      <<"l","i","b","/","p","y","t","h","o","n","3",".","5","/","d","i","s","t","-","p","a","c","k","a","g","e","s">> }

\* os.environ
EnvironChoices ==
    { [k \in {"PATH"} |-> <<"/","u","s","r","/","b","i","n">>],
      [k \in {"PATH", "CC", "CXX"} |->
          IF k = "CC" THEN <<"c","c","a","c","h","e"," ","g","c","c"," ","-","O","2">>
          ELSE IF k = "CXX" THEN <<"/","u","s","r","/","l","i","b","/","c","c","a","c","h","e","/","g","+","+">>
          ELSE <<"/","u","s","r","/","b","i","n">>] }

Packages == { [name |-> <<"p","1">>, path |-> <<"p","1">>], [name |-> <<"p","2">>, path |-> <<"p","2">>] }

Context(cmake_args, isolate_install) ==
    [source_space_abs |-> <<"/","s">>, build_space_abs |-> <<"/","b">>,
     metadata_abs |-> <<"/","m">>, install_space_abs |-> <<"/","i">>,
     cmake_args |-> cmake_args, isolate_install |-> isolate_install]

----------------------------------------------------------------------------
(* create_python_build_job and what it calls *)

\* strip_ccache dropping only the tokens that are the wrapper's name
strip_ccache_exact(cc_str) ==
    Join(<<" ">>, SelectSeq(Split(cc_str), LAMBDA part : part # <<"c","c","a","c","h","e">>))

\* job.py:147-149
strip_ccache(cc_str) ==
    Join(<<" ">>, SelectSeq(Split(cc_str), LAMBDA part : ~Contains(part, <<"c","c","a","c","h","e">>)))

\* job.py:143-153: dict(os.environ) with CC and CXX stripped when present
job_environment(environ) ==
    [k \in DOMAIN environ |->
        IF k \in {"CC", "CXX"} THEN strip_ccache(environ[k]) ELSE environ[k]]

\* job.py:108-116: the value PYTHON_EXEC holds after the call, given the
\* value it held before
determine_python_exec(cmake_args, current) ==
    LET python_directive ==
            SelectSeq(cmake_args, LAMBDA x : Contains(x, <<"P","Y","T","H","O","N","_","E","X","E","C","U","T","A","B","L","E">>))
    IN  IF python_directive # <<>>
        THEN Replace(python_directive[1], <<"-","D","P","Y","T","H","O","N","_","E","X","E","C","U","T","A","B","L","E","=">>, <<>>)
        ELSE current

\* job.py:118-127, given how the probe ends: the exception raised (None when
\* the call returns) and the version returned
determine_python_version(probe) ==
    LET check_version == BytesSplit(probe.output)
        fails(raised) == [raised |-> raised, version |-> [major |-> 0, minor |-> 0]]
    IN  IF probe.spawn = "missing" THEN fails("FileNotFoundError")
        ELSE IF probe.spawn = "failed" THEN fails("CalledProcessError")
        ELSE IF Len(check_version) < 1 THEN fails("IndexError")
        ELSE IF ~IsInt(check_version[1]) THEN fails("ValueError")
        ELSE IF Len(check_version) < 2 THEN fails("IndexError")
        ELSE IF ~IsInt(check_version[2]) THEN fails("ValueError")
        ELSE [raised |-> None,
              version |-> [major |-> IntOf(check_version[1]),
                           minor |-> IntOf(check_version[2])]]

\* job.py:200
svem_supported(setup_file_contents) ==
    \/ Contains(setup_file_contents, <<"f","r","o","m"," ","s","e","t","u","p","t","o","o","l","s">>)
    \/ Contains(setup_file_contents, <<"i","m","p","o","r","t"," ","s","e","t","u","p","t","o","o","l","s">>)

\* job.py:169-192
head_stages(ctx, package, job_env) ==
    LET metadata_path == package_metadata_path(ctx, package)
    IN  << FunctionStage("loadenv", "loadenv", "installspace",
                         [job_env |-> job_env, package |-> package, context |-> ctx]),
           FunctionStage("mkdir", "makedirs", None, [path |-> metadata_path]),
           FunctionStage("cache-manifest", "copyfiles", None,
                [source_paths |->
                    << path_join(path_join(ctx.source_space_abs, package.path),
                                 <<"p","a","c","k","a","g","e",".","x","m","l">>) >>,
                 dest_path |-> path_join(metadata_path, <<"p","a","c","k","a","g","e",".","x","m","l">>)]) >>

\* job.py:203-212
python_stage(ctx, package, exec, svem) ==
    LET build_space == package_build_space(ctx, package)
    IN  CommandStage("python",
            << exec, <<"s","e","t","u","p",".","p","y">>, <<"b","u","i","l","d">>, <<"-","-","b","u","i","l","d","-","b","a","s","e">>, build_space,
               <<"i","n","s","t","a","l","l">>, <<"-","-","r","o","o","t">>, build_space, <<"-","-","p","r","e","f","i","x">>, <<"i","n","s","t","a","l","l">> >>
            \o (IF svem THEN << <<"-","-","s","i","n","g","l","e","-","v","e","r","s","i","o","n","-","e","x","t","e","r","n","a","l","l","y","-","m","a","n","a","g","e","d">> >> ELSE <<>>),
            path_join(ctx.source_space_abs, package.path), None)

\* the debian-fix stage without the collapse of the versioned directory
debian_fix_stages_minor(ctx, package, python_install_dir, python_version) ==
    LET build_space == package_build_space(ctx, package)
        python_install_dir_site ==
            Replace(python_install_dir, <<"d","i","s","t","-","p","a","c","k","a","g","e","s">>, <<"s","i","t","e","-","p","a","c","k","a","g","e","s">>)
    IN  IF Contains(python_install_dir, <<"d","i","s","t","-","p","a","c","k","a","g","e","s">>)
        THEN << FunctionStage("debian-fix", "renamepath", None,
                    [source_path |-> path_join(path_join(build_space, <<"i","n","s","t","a","l","l">>),
                                               python_install_dir_site),
                     dest_path |-> path_join(path_join(build_space, <<"i","n","s","t","a","l","l">>),
                                             python_install_dir)]) >>
        ELSE <<>>

\* job.py:215-226
debian_fix_stages(ctx, package, python_install_dir, python_version) ==
    LET build_space == package_build_space(ctx, package)
        python_install_dir_site ==
            Replace(python_install_dir, <<"d","i","s","t","-","p","a","c","k","a","g","e","s">>, <<"s","i","t","e","-","p","a","c","k","a","g","e","s">>)
        collapsed ==
            IF python_version.major = 3
            THEN Replace(python_install_dir,
                         <<"p","y","t","h","o","n">> \o Str(python_version.major) \o <<".">>
                                     \o Str(python_version.minor),
                         <<"p","y","t","h","o","n">> \o Str(python_version.major))
            ELSE python_install_dir
    IN  IF Contains(python_install_dir, <<"d","i","s","t","-","p","a","c","k","a","g","e","s">>)
        THEN << FunctionStage("debian-fix", "renamepath", None,
                    [source_path |-> path_join(path_join(build_space, <<"i","n","s","t","a","l","l">>),
                                               python_install_dir_site),
                     dest_path |-> path_join(path_join(build_space, <<"i","n","s","t","a","l","l">>),
                                             collapsed)]) >>
        ELSE <<>>

\* job.py:229-268
install_stages(ctx, package, exec) ==
    LET build_space == package_build_space(ctx, package)
        dest_path == package_dest_path(ctx, package)
    IN  << FunctionStage("mkdir-install", "makedirs", None, [path |-> dest_path]),
           CommandStage("install",
                << RSYNC_EXEC, <<"-","a">>,
                   path_join(path_join(build_space, <<"i","n","s","t","a","l","l">>), <<>>), dest_path >>,
                path_join(ctx.source_space_abs, package.path), "installspace"),
           FunctionStage("fix-shebang", "fix_shebangs",
                IF ctx.isolate_install THEN None ELSE "installspace",
                [pkg_dir |-> dest_path, python_exec |-> exec]),
           FunctionStage("setupgen", "generate_setup_file", None,
                [context |-> ctx, install_target |-> dest_path]),
           FunctionStage("envgen", "generate_env_file", None,
                [context |-> ctx, install_target |-> dest_path]) >>

\* the fix_python3_install_space stage emitted whatever the major version
fix_python3_stages_always(ctx, package, python_version) ==
    << FunctionStage("fix_python3_install_space", "fix_python3_install_space",
            "installspace",
            [install_space |-> package_dest_path(ctx, package),
             old_python |-> Str(python_version.major) \o <<".">>
                                \o Str(python_version.minor),
             new_python |-> python_version.major]) >>

\* job.py:271-279
fix_python3_stages(ctx, package, python_version) ==
    IF python_version.major = 3
    THEN << FunctionStage("fix_python3_install_space", "fix_python3_install_space",
                "installspace",
                [install_space |-> package_dest_path(ctx, package),
                 old_python |-> Str(python_version.major) \o <<".">>
                                    \o Str(python_version.minor),
                 new_python |-> python_version.major]) >>
    ELSE <<>>

----------------------------------------------------------------------------
(* Calls of create_python_build_job. A call writes the global PYTHON_EXEC   *)
(* (job.py:161), waits for the version probe, which reads it (job.py:123), *)
(* and reads it again for the python stage (job.py:205) and for the        *)
(* fix-shebang stage (job.py:252); calls made from several threads of one  *)
(* process interleave at these places.                                     *)

NoJob == Job(<<>>, {}, <<>>, <<>>)

NoCall ==
    [at |-> "idle", cmake_args |-> <<>>, isolate_install |-> FALSE,
     setup_py |-> [exists |-> FALSE, contents |-> <<>>],
     python_install_dir |-> <<>>, environ |-> <<>>,
     probe |-> [spawn |-> "missing", output |-> <<>>], probed_exec |-> <<>>,
     python_version |-> [major |-> 0, minor |-> 0],
     job_env |-> <<>>, stages |-> <<>>, raised |-> None, job |-> NoJob]

PlanInit ==
    /\ PYTHON_EXEC = DefaultPython        \* job.py:38
    /\ calls = [p \in Packages |-> NoCall]

\* the context of the call made for p
CallContext(p) == Context(calls[p].cmake_args, calls[p].isolate_install)

\* the environments of the planning calls of Spec
EnvironSmall == { [k \in {"PATH", "CC"} |->
                     IF k = "CC" THEN <<"c","c","a","c","h","e"," ","g","c","c">> ELSE <<"/","u","s","r","/","b","i","n">>] }

\* job.py:130-161: a call for package p starts, its inputs drawn from the
\* given sets; the job environment is built and determine_python_exec rebinds
\* PYTHON_EXEC
BeginCall(p, ArgSet, IsolateSet, SetupSet, DirSet, EnvSet) ==
    /\ calls[p].at \in {"idle", "done"}
    /\ \E cmake_args \in ArgSet, isolate_install \in IsolateSet, setup_py \in SetupSet,
          python_install_dir \in DirSet, environ \in EnvSet :
        /\ calls' = [calls EXCEPT ![p] =
                [NoCall EXCEPT !.at = "probe", !.cmake_args = cmake_args,
                               !.isolate_install = isolate_install,
                               !.setup_py = setup_py,
                               !.python_install_dir = python_install_dir,
                               !.environ = environ,
                               !.job_env = job_environment(environ)]]
        /\ PYTHON_EXEC' = determine_python_exec(cmake_args, PYTHON_EXEC)

\* job.py:164: determine_python_version starts the interpreter PYTHON_EXEC
\* names now and reads what it prints; an exception ends the call
ProbeVersion(p, ProbeSet) ==
    /\ calls[p].at = "probe"
    /\ \E probe \in ProbeSet :
        LET r == determine_python_version(probe)
        IN  calls' = [calls EXCEPT ![p] =
                [calls[p] EXCEPT !.at = IF r.raised = None THEN "head" ELSE "done",
                          !.probe = probe, !.probed_exec = PYTHON_EXEC,
                          !.python_version = r.version, !.raised = r.raised]]
    /\ UNCHANGED PYTHON_EXEC

\* job.py:166-212: loadenv, mkdir and cache-manifest are appended, setup.py is
\* read (a missing file ends the call) and the python stage is appended with
\* the interpreter PYTHON_EXEC names now
EmitHead(p) ==
    /\ calls[p].at = "head"
    /\ LET c == calls[p]
       IN  calls' = [calls EXCEPT ![p] =
                IF ~c.setup_py.exists
                THEN [c EXCEPT !.at = "done", !.raised = "FileNotFoundError"]
                ELSE [c EXCEPT !.at = "tail",
                               !.stages = head_stages(CallContext(p), p, c.job_env)
                                   \o << python_stage(CallContext(p), p, PYTHON_EXEC,
                                            svem_supported(c.setup_py.contents)) >>]]
    /\ UNCHANGED PYTHON_EXEC

\* job.py:214-285: the remaining stages are appended, fix-shebang with the
\* interpreter PYTHON_EXEC names now, and the Job is returned
EmitTail(p) ==
    /\ calls[p].at = "tail"
    /\ LET c == calls[p]
           stages == c.stages
               \o debian_fix_stages(CallContext(p), p, c.python_install_dir,
                                    c.python_version)
               \o install_stages(CallContext(p), p, PYTHON_EXEC)
               \o fix_python3_stages(CallContext(p), p, c.python_version)
       IN  calls' = [calls EXCEPT ![p] =
                [c EXCEPT !.at = "done", !.stages = stages,
                          !.job = Job(p.name, {}, c.job_env, stages)]]
    /\ UNCHANGED PYTHON_EXEC

\* job.py:161 of a call made meanwhile for some other package:
\* determine_python_exec rebinds PYTHON_EXEC
OtherCallBegins(ArgSet) ==
    /\ \E cmake_args \in ArgSet :
          PYTHON_EXEC' = determine_python_exec(cmake_args, PYTHON_EXEC)
    /\ UNCHANGED calls

----------------------------------------------------------------------------
(* The host's executor running the jobs of one build *)

ExecIdle ==
    /\ context = Context(<<>>, FALSE)
    /\ pc = [p \in Packages |-> 0]
    /\ running = [p \in Packages |-> FALSE]

ExecInit ==
    /\ context \in { Context(<<>>, isolate_install) : isolate_install \in BOOLEAN }
    /\ pc = [p \in Packages |-> 0]
    /\ running = [p \in Packages |-> FALSE]

ExecProbes ==
    { o \in ProbeOutcomes : o.output \in { <<>>, <<"3","\n">>, <<"2"," ","7","\n">>, <<"3"," ","5","\n">> } }

ExecSetups == { s \in SetupPyChoices : ~svem_supported(s.contents) }

ExecDirs == { <<"l","i","b","/","p","y","t","h","o","n","2",".","7","/","s","i","t","e","-","p","a","c","k","a","g","e","s">>, <<"l","i","b","/","p","y","t","h","o","n","3",".","5","/","d","i","s","t","-","p","a","c","k","a","g","e","s">> }

\* the host calls the planner once for each package of the build, with the
\* build's context, when it builds the job graph
PlanJob(p) ==
    /\ \/ /\ calls[p].at = "idle"
          /\ BeginCall(p, { context.cmake_args }, { context.isolate_install },
                       ExecSetups, ExecDirs, EnvironSmall)
       \/ ProbeVersion(p, ExecProbes)
       \/ EmitHead(p)
       \/ EmitTail(p)
    /\ UNCHANGED execVars

\* whether the call for p has returned a Job
Planned(p) == calls[p].at = "done" /\ calls[p].raised = None

\* the stage of p's job that runs next, or is running
CurrentStage(p) == calls[p].job.stages[pc[p] + 1]

\* the packages whose running stage holds the named lock
Holders(resource) ==
    { q \in Packages : running[q] /\ CurrentStage(q).locked_resource = resource }

\* the executor starts the next stage of a job once it holds the stage's
\* locked_resource, if it declares one
StartStage(p) ==
    /\ \A q \in Packages : calls[q].at = "done"
    /\ Planned(p)
    /\ ~running[p]
    /\ pc[p] < Len(calls[p].job.stages)
    /\ \/ CurrentStage(p).locked_resource = None
       \/ Holders(CurrentStage(p).locked_resource) = {}
    /\ running' = [running EXCEPT ![p] = TRUE]
    /\ UNCHANGED <<planVars, context, pc>>

\* the stage ends and its lock is released
FinishStage(p) ==
    /\ running[p]
    /\ running' = [running EXCEPT ![p] = FALSE]
    /\ pc' = [pc EXCEPT ![p] = pc[p] + 1]
    /\ UNCHANGED <<planVars, context>>

\* whether the stage is handed dest_path as the place it creates or writes:
\* makedirs(path), rsync's destination operand, fix_shebangs(pkg_dir),
\* generate_setup_file/generate_env_file(install_target),
\* fix_python3_install_space(install_space)
WritesInstallTree(stage, dest_path) ==
    IF stage.kind = "command"
    THEN stage.cmd # <<>> /\ stage.cmd[1] = RSYNC_EXEC
                          /\ stage.cmd[Len(stage.cmd)] = dest_path
    ELSE \E k \in DOMAIN stage.kwargs \cap
                    {"path", "pkg_dir", "install_target", "install_space"} :
            stage.kwargs[k] = dest_path

----------------------------------------------------------------------------
(* fix_shebangs *)

\* the directive matched as a bare prefix, without the (\s|$) that ends it
MatchesDirective_prefix(contents, literal) == StartsWith(contents, literal)

\* re.match(literal + b"(\s|$)", contents)
MatchesDirective(contents, literal) ==
    /\ StartsWith(contents, literal)
    /\ \/ Len(contents) = Len(literal)
       \/ contents[Len(literal) + 1] \in BytesWhitespace

\* job.py:67-76: what one file's bytes become, and whether modified is set
fix_file(contents, exec) ==
    LET new_shebang == <<"#","!">> \o exec
    IN  IF MatchesDirective(contents, <<"#","!","/","u","s","r","/","b","i","n","/","p","y","t","h","o","n">>)
        THEN [contents |-> ReplaceFirst(contents, <<"#","!","/","u","s","r","/","b","i","n","/","p","y","t","h","o","n">>, new_shebang),
              modified |-> TRUE]
        ELSE IF MatchesDirective(contents, <<"#","!","/","u","s","r","/","b","i","n","/","e","n","v"," ","p","y","t","h","o","n">>)
        THEN [contents |-> ReplaceFirst(contents, <<"#","!","/","u","s","r","/","b","i","n","/","e","n","v"," ","p","y","t","h","o","n">>, new_shebang),
              modified |-> TRUE]
        ELSE [contents |-> contents, modified |-> FALSE]

\* the filename os.walk yields for a path
RECURSIVE Basename(_)
Basename(path) ==
    IF Contains(path, <<"/">>) THEN Basename(Tail(path)) ELSE path

\* job.py:51-83 over the whole tree: the tree after the pass, the files
\* opened for writing and the status returned
fix_shebangs(tr, exec) ==
    LET py(f) == EndsWith(Basename(f), <<".","p","y">>)
    IN  [tree |-> [f \in DOMAIN tr |->
                      IF py(f) THEN fix_file(tr[f], exec).contents ELSE tr[f]],
         written |-> { f \in DOMAIN tr : py(f) /\ fix_file(tr[f], exec).modified },
         ret |-> 0]

\* the first line of a file, without its line end
RECURSIVE FirstLine(_)
FirstLine(s) ==
    IF s = <<>> \/ s[1] = "\n" THEN <<>> ELSE <<s[1]>> \o FirstLine(Tail(s))

ShebangFiles == { <<"b","i","n","/","r","u","n",".","p","y">>, <<"l","i","b","/","m",".","p","y","c">> }

ShebangHeads ==
    { <<"#","!","/","u","s","r","/","b","i","n","/","p","y","t","h","o","n">>, <<"#","!","/","u","s","r","/","b","i","n","/","p","y","t","h","o","n","3",".","9">>, <<"#","!","/","u","s","r","/","b","i","n","/","e","n","v"," ","p","y","t","h","o","n">>,
      <<"#","!","/","u","s","r","/","b","i","n","/","e","n","v"," ","p","y","t","h","o","n","3">>, <<"#","!","/","o","p","t","/","p","y","3">>, <<"#"," ","#","!","/","u","s","r","/","b","i","n","/","p","y","t","h","o","n">> }

ShebangTails ==
    { <<>>, <<"\n">>, <<" ","-","u","\n","x","\n">>, <<"\t","\n","x","\n">>, <<"\n","x","\n">>, <<"\\v","x","\n">> }

FileContents == { h \o t : h \in ShebangHeads, t \in ShebangTails } \cup { <<>> }

TargetChoices == { DefaultPython, <<"/","o","p","t","/","p","y","3">>, <<"/","u","s","r","/","b","i","n","/","p","y","t","h","o","n","3",".","8">> }

MaxPasses == 2

ShebangIdle ==
    /\ tree = <<>> /\ tree0 = <<>> /\ written = {} /\ passes = 0
    /\ python_exec = <<>>

ShebangInit ==
    /\ tree \in [ShebangFiles -> FileContents]
    /\ tree0 = tree
    /\ written = {}
    /\ passes = 0
    /\ python_exec \in TargetChoices

\* the fix-shebang stage runs (again)
FixShebangs ==
    /\ passes < MaxPasses
    /\ LET r == fix_shebangs(tree, python_exec)
       IN  /\ tree' = r.tree
           /\ written' = r.written
    /\ tree0' = tree
    /\ passes' = passes + 1
    /\ UNCHANGED python_exec

----------------------------------------------------------------------------
(* fix_python3_install_space *)

\* job.py:89-106 on the setup.sh of install_space: the file after the call,
\* the number of times it was opened for writing and the status returned
fix_python3_install_space(file, old_python, new_python) ==
    LET old_python_path == <<"/","l","i","b","/","p","y","t","h","o","n">> \o old_python
        new_python_path == <<"/","l","i","b","/","p","y","t","h","o","n">> \o Str(new_python)
        contents == Replace(file.contents, old_python_path, new_python_path)
    IN  IF file.exists /\ contents # <<>>
        THEN [file |-> [exists |-> TRUE, contents |-> contents], writes |-> 1, ret |-> 0]
        ELSE [file |-> file, writes |-> 0, ret |-> 0]

SetupPieces ==
    { <<"/","l","i","b","/","p","y","t","h","o","n","3",".","1","0">>, <<"/","l","i","b","/","p","y","t","h","o","n","3">>, <<"/","i">>, <<":">>, <<".","5","\n">> }

MaxPieces == 3

\* the byte strings made of at most n pieces
RECURSIVE Concats(_, _)
Concats(pieces, n) ==
    IF n = 0 THEN { <<>> }
    ELSE LET shorter == Concats(pieces, n - 1)
         IN  shorter \cup { s \o p : s \in shorter, p \in pieces }

NoSetupCall ==
    [made |-> FALSE, old_python |-> <<>>, new_python |-> 0, writes |-> 0, ret |-> 0]

SetupIdle ==
    /\ setup_sh = [exists |-> FALSE, contents |-> <<>>]
    /\ setup_sh0 = setup_sh
    /\ setup_call = NoSetupCall

SetupInit ==
    /\ setup_sh \in { [exists |-> FALSE, contents |-> <<>>] }
                    \cup { [exists |-> TRUE, contents |-> c] :
                              c \in Concats(SetupPieces, MaxPieces) }
    /\ setup_sh0 = setup_sh
    /\ setup_call = NoSetupCall

\* the fix_python3_install_space stage runs, with the arguments the planner
\* binds for an interpreter of major version 3
FixPython3InstallSpace ==
    /\ ~setup_call.made
    /\ \E probe \in { o \in ProbeOutcomes :
                        /\ determine_python_version(o).raised = None
                        /\ determine_python_version(o).version.major = 3 } :
        LET stage == fix_python3_stages(Context(<<>>, FALSE),
                                        CHOOSE p \in Packages : TRUE,
                                        determine_python_version(probe).version)[1]
            r == fix_python3_install_space(setup_sh, stage.kwargs.old_python,
                                           stage.kwargs.new_python)
        IN  /\ setup_sh' = r.file
            /\ setup_call' = [made |-> TRUE, old_python |-> stage.kwargs.old_python,
                              new_python |-> stage.kwargs.new_python,
                              writes |-> r.writes, ret |-> r.ret]
    /\ setup_sh0' = setup_sh

----------------------------------------------------------------------------
(* renamepath *)

Absent == [exists |-> FALSE, kind |-> None, files |-> {}]

PathEntries ==
    { Absent, [exists |-> TRUE, kind |-> "file", files |-> {}] }
    \cup { [exists |-> TRUE, kind |-> "dir", files |-> fl] : fl \in SUBSET {"a.py", "b.py"} }

\* job.py:42-48. f.src and f.dst are what source_path and dest_path name,
\* f.same_dir whether the two paths lie in one directory (as they do when the
\* planner binds lib/python3/site-packages and lib/python3/dist-packages),
\* f.dst_parent whether dest_path's directory exists, f.src_parent whether
\* source_path's directory exists, f.src_siblings whether that directory
\* holds anything besides the source and f.others whether it holds anything
\* besides the two paths.
\* shutil.rmtree raises on a path that is not a directory; os.renames creates
\* the destination's directory, raises when the source does not exist and,
\* after the rename, prunes the source's directory when it is left empty.
renamepath(f) ==
    IF f.dst.exists /\ f.dst.kind # "dir"
    THEN [fs |-> f, ret |-> "raised"]
    ELSE LET cleared ==
                [f EXCEPT !.dst = Absent, !.dst_parent = TRUE,
                          !.src_parent = IF f.same_dir THEN TRUE ELSE @,
                          !.src_siblings = IF f.same_dir THEN f.others ELSE @]
         IN  IF ~f.src.exists
             THEN [fs |-> cleared, ret |-> "raised"]
             ELSE [fs |-> [cleared EXCEPT !.dst = f.src, !.src = Absent,
                                          !.src_parent = f.same_dir \/ f.others,
                                          !.src_siblings = f.same_dir \/ f.others],
                   ret |-> "0"]

MaxRenameCalls == 2

RenameIdle ==
    /\ fs = [src |-> Absent, dst |-> Absent, same_dir |-> FALSE, dst_parent |-> FALSE,
             src_parent |-> FALSE, src_siblings |-> FALSE, others |-> FALSE]
    /\ fs0 = fs
    /\ rename_ret = None /\ rename_prev = None /\ rename_calls = 0

RenameInit ==
    /\ fs \in { f \in [src : PathEntries, dst : PathEntries, same_dir : BOOLEAN,
                       dst_parent : BOOLEAN, src_parent : BOOLEAN,
                       src_siblings : BOOLEAN, others : BOOLEAN] :
                    /\ f.dst.exists => f.dst_parent
                    /\ f.src.exists => f.src_parent
                    /\ f.others => f.src_parent
                    /\ f.same_dir => f.dst_parent = f.src_parent
                    /\ f.src_siblings = (f.others \/ (f.same_dir /\ f.dst.exists)) }
    /\ fs0 = fs
    /\ rename_ret = None /\ rename_prev = None /\ rename_calls = 0

\* the debian-fix stage runs (again), with the same two paths
RenamePath ==
    /\ rename_calls < MaxRenameCalls
    /\ LET r == renamepath(fs)
       IN  /\ fs' = r.fs
           /\ rename_ret' = r.ret
    /\ fs0' = fs
    /\ rename_prev' = rename_ret
    /\ rename_calls' = rename_calls + 1

----------------------------------------------------------------------------
(* Specifications *)

\* calls of create_python_build_job made one after another by one thread,
\* while other threads of the process begin calls of their own
Init == PlanInit /\ ExecIdle /\ ShebangIdle /\ SetupIdle /\ RenameIdle

Caller == CHOOSE p \in Packages : TRUE

\* the cmake_args of the calls other threads make
OtherArgs == { a \in CMakeArgChoices : Len(a) = 2 }

Next ==
    /\ \/ BeginCall(Caller, CMakeArgChoices \ OtherArgs, BOOLEAN, SetupPyChoices,
                    InstallDirChoices, EnvironSmall)
       \/ ProbeVersion(Caller, ProbeOutcomes)
       \/ EmitHead(Caller)
       \/ EmitTail(Caller)
       \/ OtherCallBegins(OtherArgs)
    /\ UNCHANGED <<execVars, shebangVars, setupVars, renameVars>>

Spec == Init /\ [][Next]_vars

\* calls made by two threads of one process
RaceProbes == { o \in ProbeOutcomes : o.output \in { <<"2"," ","7","\n">>, <<"3"," ","5","\n">> } }

RaceSetups == { s \in SetupPyChoices : svem_supported(s.contents) }

NextRace ==
    /\ \E p \in Packages :
          \/ BeginCall(p, CMakeArgChoices, { FALSE }, RaceSetups,
                       { <<"l","i","b","/","p","y","t","h","o","n","3","/","d","i","s","t","-","p","a","c","k","a","g","e","s">> }, EnvironSmall)
          \/ ProbeVersion(p, RaceProbes)
          \/ EmitHead(p)
          \/ EmitTail(p)
    /\ UNCHANGED <<execVars, shebangVars, setupVars, renameVars>>

SpecRace == Init /\ [][NextRace]_vars

\* one call over the compiler settings of the ambient environment
MaxWords == 4

CompilerPieces ==
    { <<"c","c","a","c","h","e">>, <<"g","c","c">>, <<" ">>, <<"\t","\\v","\\xa0","\n">>, <<"/","c","c","a","c","h","e","/">> }

EnvironWide ==
    { [k \in {"PATH"} |-> <<"/","u","s","r","/","b","i","n">>] }
    \cup { [k \in {"PATH", "CC"} |-> IF k = "CC" THEN cc ELSE <<"/","u","s","r","/","b","i","n">>] :
              cc \in Concats(CompilerPieces, MaxWords) }
    \cup { [k \in {"PATH", "CC", "CXX"} |->
              IF k = "CC" THEN cc ELSE IF k = "CXX" THEN cxx ELSE <<"/","u","s","r","/","b","i","n",":","c","c","a","c","h","e">>] :
              cc \in Concats(CompilerPieces, MaxWords),
              cxx \in { <<"c","c","a","c","h","e"," ","g","+","+">>, <<" ","g","+","+"," "," ","-","O","2"," ">> } }

NextEnv ==
    /\ \/ /\ calls[Caller].at = "idle"
          /\ BeginCall(Caller, { <<>> }, { FALSE },
                       { s \in SetupPyChoices : s.exists /\ ~svem_supported(s.contents) },
                       { <<"l","i","b","/","p","y","t","h","o","n","3","/","d","i","s","t","-","p","a","c","k","a","g","e","s">> }, EnvironWide)
       \/ ProbeVersion(Caller, { o \in ProbeOutcomes : o.output = <<"3"," ","5","\n">> })
       \/ EmitHead(Caller)
       \/ EmitTail(Caller)
    /\ UNCHANGED <<execVars, shebangVars, setupVars, renameVars>>

SpecEnv == Init /\ [][NextEnv]_vars

\* two jobs of one build run by the executor
InitExec == PlanInit /\ ExecInit /\ ShebangIdle /\ SetupIdle /\ RenameIdle

NextExec ==
    /\ \E p \in Packages : PlanJob(p) \/ StartStage(p) \/ FinishStage(p)
    /\ UNCHANGED <<shebangVars, setupVars, renameVars>>

SpecExec == InitExec /\ [][NextExec]_vars

\* passes of fix_shebangs over one tree
InitShebang == PlanInit /\ ExecIdle /\ ShebangInit /\ SetupIdle /\ RenameIdle

NextShebang ==
    /\ FixShebangs
    /\ UNCHANGED <<planVars, execVars, setupVars, renameVars>>

SpecShebang == InitShebang /\ [][NextShebang]_vars

\* one call of fix_python3_install_space
InitSetup == PlanInit /\ ExecIdle /\ ShebangIdle /\ SetupInit /\ RenameIdle

NextSetup ==
    /\ FixPython3InstallSpace
    /\ UNCHANGED <<planVars, execVars, shebangVars, renameVars>>

SpecSetup == InitSetup /\ [][NextSetup]_vars

\* calls of renamepath with the same two paths
InitRename == PlanInit /\ ExecIdle /\ ShebangIdle /\ SetupIdle /\ RenameInit

NextRename ==
    /\ RenamePath
    /\ UNCHANGED <<planVars, execVars, shebangVars, setupVars>>

SpecRename == InitRename /\ [][NextRename]_vars

----------------------------------------------------------------------------
(* Properties of the planner *)

\* the context of the successful call for p
PlanContext(p) == CallContext(p)

RECURSIVE StageNames(_)
StageNames(stages) ==
    IF stages = <<>> THEN <<>> ELSE <<Head(stages).name>> \o StageNames(Tail(stages))

StageIndexes(stages, name) == { i \in 1..Len(stages) : stages[i].name = name }

StageNamed(stages, name) == stages[CHOOSE i \in StageIndexes(stages, name) : TRUE]

DebianPlatform(p) == Contains(calls[p].python_install_dir, <<"d","i","s","t","-","p","a","c","k","a","g","e","s">>)

\* C1: whenever planning succeeds, the stage names of the returned Job are, in
\* this order, loadenv, mkdir, cache-manifest, python, debian-fix (only when
\* the platform install dir contains 'dist-packages'), mkdir-install, install,
\* fix-shebang, setupgen, envgen, fix_python3_install_space (only when the
\* interpreter's major version is 3), and nothing else.
C1_StageOrder ==
    \A p \in Packages : Planned(p) =>
        StageNames(calls[p].job.stages) =
            <<"loadenv", "mkdir", "cache-manifest", "python">>
            \o (IF DebianPlatform(p) THEN <<"debian-fix">> ELSE <<>>)
            \o <<"mkdir-install", "install", "fix-shebang", "setupgen", "envgen">>
            \o (IF calls[p].python_version.major = 3
                THEN <<"fix_python3_install_space">> ELSE <<>>)

\* a successful plan with both conditional stages, for a setup.py that
\* imports setuptools and an isolated install
C1_Witness ==
    \E p \in Packages :
    /\ Planned(p)
    /\ DebianPlatform(p)
    /\ calls[p].python_version.major = 3
    /\ calls[p].isolate_install
    /\ svem_supported(calls[p].setup_py.contents)
    /\ Len(calls[p].job.stages) = 11

\* C2: in every plan returned, every stage that writes into the install tree
\* (dest_path) declares locked_resource 'installspace', except fix-shebang,
\* which declares no lock exactly when context.isolate_install is set.
CE_C2_WritersLocked ==
    \A p \in Packages : Planned(p) =>
        \A i \in 1..Len(calls[p].job.stages) :
            LET stage == calls[p].job.stages[i]
            IN  WritesInstallTree(stage, package_dest_path(PlanContext(p), p)) =>
                    IF stage.name = "fix-shebang"
                    THEN stage.locked_resource =
                            (IF calls[p].isolate_install THEN None ELSE "installspace")
                    ELSE stage.locked_resource = "installspace"

\* the first argument that begins with -DPYTHON_EXECUTABLE=, if any
OverrideArgs(cmake_args) ==
    SelectSeq(cmake_args, LAMBDA x : StartsWith(x, <<"-","D","P","Y","T","H","O","N","_","E","X","E","C","U","T","A","B","L","E","=">>))

ExpectedInterpreter(cmake_args) ==
    IF OverrideArgs(cmake_args) = <<>> THEN DefaultPython
    ELSE SubSeq(OverrideArgs(cmake_args)[1], Len(<<"-","D","P","Y","T","H","O","N","_","E","X","E","C","U","T","A","B","L","E","=">>) + 1,
                Len(OverrideArgs(cmake_args)[1]))

\* C4: for every planning call, whatever calls ran before it, the interpreter
\* of the python stage and of the fix-shebang stage is the override path when
\* the cmake args hold a PYTHON_EXECUTABLE entry and the ambient default
\* interpreter when they hold none.
CE_C4_InterpreterPerCall ==
    \A p \in Packages : Planned(p) =>
        /\ StageNamed(calls[p].job.stages, "python").cmd[1]
              = ExpectedInterpreter(calls[p].cmake_args)
        /\ StageNamed(calls[p].job.stages, "fix-shebang").kwargs.python_exec
              = ExpectedInterpreter(calls[p].cmake_args)

\* "M.N" for the probed version
VersionText(v) == Str(v.major) \o <<".">> \o Str(v.minor)

\* e is dir with its 'pythonM.N' segment, if it has one, cut down to 'pythonM'
IsCollapsed(dir, e, v) ==
    LET long  == <<"p","y","t","h","o","n">> \o VersionText(v)
        short == <<"p","y","t","h","o","n">> \o Str(v.major)
        at    == { i \in 1..Len(dir) : StartsWithAt(dir, i, long) }
    IN  IF at = {} THEN e = dir
        ELSE /\ \E i \in at : e = SubSeq(dir, 1, i - 1) \o short
                                  \o SubSeq(dir, i + Len(long), Len(dir))
             /\ ~Contains(e, long)

\* the part of the debian-fix destination below <build space>/install/
DebianDest(p, stage) ==
    LET prefix == package_build_space(PlanContext(p), p) \o <<"/","i","n","s","t","a","l","l","/">>
    IN  IF StartsWith(stage.kwargs.dest_path, prefix)
        THEN SubSeq(stage.kwargs.dest_path, Len(prefix) + 1, Len(stage.kwargs.dest_path))
        ELSE <<>>

\* C5: when the probe reports major 3 the plan holds exactly one
\* fix_python3_install_space stage, with old version 'M.N' and new version
\* 'M', and the debian-fix destination has 'pythonM.N' collapsed to
\* 'pythonM'; when it reports major 2 the plan holds no such stage and the
\* debian-fix destination is the platform install dir as it is.
C5_Python3Collapse ==
    \A p \in Packages : Planned(p) =>
        LET stages == calls[p].job.stages
            v      == calls[p].python_version
            fix    == StageIndexes(stages, "fix_python3_install_space")
            deb    == StageIndexes(stages, "debian-fix")
        IN  IF v.major = 3
            THEN /\ Cardinality(fix) = 1
                 /\ \A i \in fix :
                        /\ stages[i].kwargs.old_python = VersionText(v)
                        /\ stages[i].kwargs.new_python = v.major
                 /\ \A i \in deb :
                        IsCollapsed(calls[p].python_install_dir, DebianDest(p, stages[i]), v)
            ELSE /\ fix = {}
                 /\ \A i \in deb : DebianDest(p, stages[i]) = calls[p].python_install_dir

\* a plan for a 3.5 interpreter on a platform whose install dir is
\* lib/python3.5/dist-packages: the rename goes to lib/python3/dist-packages
C5_Witness ==
    \E p \in Packages :
    /\ Planned(p)
    /\ calls[p].python_version.major = 3
    /\ calls[p].python_install_dir = <<"l","i","b","/","p","y","t","h","o","n","3",".","5","/","d","i","s","t","-","p","a","c","k","a","g","e","s">>
    /\ StageIndexes(calls[p].job.stages, "debian-fix") # {}
    /\ DebianDest(p, StageNamed(calls[p].job.stages, "debian-fix")) = <<"l","i","b","/","p","y","t","h","o","n","3","/","d","i","s","t","-","p","a","c","k","a","g","e","s">>
    /\ StageIndexes(calls[p].job.stages, "fix_python3_install_space") # {}

\* where the tokens of s start: a non-blank character at the start of s or
\* after a blank one
TokenStarts(s) ==
    { i \in 1..Len(s) : s[i] \notin StrWhitespace /\ (i = 1 \/ s[i - 1] \in StrWhitespace) }

\* the token of s that starts at i
TokenAt(s, i) ==
    SubSeq(s, i, CHOOSE j \in i..Len(s) :
                    /\ \A k \in i..j : s[k] \notin StrWhitespace
                    /\ j = Len(s) \/ s[j + 1] \in StrWhitespace)

\* the tokens of s starting at the given places, in order, joined by one space
RECURSIVE JoinedTokens(_, _)
JoinedTokens(s, starts) ==
    IF starts = {} THEN <<>>
    ELSE LET i == CHOOSE x \in starts : \A y \in starts : x <= y
         IN  IF starts = {i} THEN TokenAt(s, i)
             ELSE TokenAt(s, i) \o <<" ">> \o JoinedTokens(s, starts \ {i})

WithoutCcache(s) ==
    JoinedTokens(s, { i \in TokenStarts(s) : ~Contains(TokenAt(s, i), <<"c","c","a","c","h","e">>) })

\* C8: the CC and CXX entries of the job environment are the ambient entry's
\* white-space separated tokens that do not contain 'ccache', in their order,
\* joined by single spaces; stripping the result again gives the result; and
\* every other entry of the job environment is the ambient entry.
C8_StripCcache ==
    \A p \in Packages : Planned(p) =>
        /\ DOMAIN calls[p].job.env = DOMAIN calls[p].environ
        /\ \A k \in DOMAIN calls[p].environ :
              IF k \in {"CC", "CXX"}
              THEN /\ calls[p].job.env[k] = WithoutCcache(calls[p].environ[k])
                   /\ strip_ccache(calls[p].job.env[k]) = calls[p].job.env[k]
              ELSE calls[p].job.env[k] = calls[p].environ[k]

\* a plan whose CC named the wrapper inside a path token, with another token
\* kept
C8_Witness ==
    \E p \in Packages :
    /\ Planned(p)
    /\ "CC" \in DOMAIN calls[p].environ
    /\ calls[p].environ["CC"] = <<"/","c","c","a","c","h","e","/","g","c","c","\t","\\v","\\xa0","\n","g","c","c">>
    /\ calls[p].job.env["CC"] = <<"g","c","c">>
    /\ calls[p].job.env["PATH"] = calls[p].environ["PATH"]

----------------------------------------------------------------------------
(* Properties of the executor's runs *)

\* the packages whose running stage writes into the install tree
InstallWriters ==
    { p \in Packages :
        running[p] /\ WritesInstallTree(CurrentStage(p), package_dest_path(context, p)) }

\* C3: when installs are not isolated, at most one stage that writes into the
\* shared install tree runs at any time.
CE_C3_OneInstallWriter ==
    ~context.isolate_install => Cardinality(InstallWriters) <= 1

----------------------------------------------------------------------------
(* Properties of fix_shebangs *)

IsPython(f) == EndsWith(f, <<".","p","y">>)

\* c starts with the directive lit, followed by white space (or, when atEnd,
\* by the end of the file)
Directive(c, lit, atEnd) ==
    /\ StartsWith(c, lit)
    /\ \/ atEnd /\ Len(c) = Len(lit)
       \/ Len(c) > Len(lit) /\ c[Len(lit) + 1] \in BytesWhitespace

\* c with its first n bytes replaced by '#!<python_exec>'
Redirected(c, n) == <<"#","!">> \o python_exec \o SubSeq(c, n + 1, Len(c))

\* C6 as amended: in a .py file that starts with '#!/usr/bin/python' or the
\* bare '#!/usr/bin/env python', followed by white space or the end of the
\* file, that directive is replaced by '#!<target>' and the rest of the file
\* is unchanged; a .py file that starts with '#!/usr/bin/python3.9' or
\* '#!/usr/bin/env python3' is left as it is; a file whose name does not end
\* in '.py' is never modified.
C6_ShebangRewrite ==
    passes >= 1 =>
        \A f \in DOMAIN tree0 :
            LET c == tree0[f]
            IN  /\ IsPython(f) /\ Directive(c, <<"#","!","/","u","s","r","/","b","i","n","/","p","y","t","h","o","n">>, TRUE)
                      => tree[f] = Redirected(c, Len(<<"#","!","/","u","s","r","/","b","i","n","/","p","y","t","h","o","n">>))
                /\ IsPython(f) /\ Directive(c, <<"#","!","/","u","s","r","/","b","i","n","/","e","n","v"," ","p","y","t","h","o","n">>, TRUE)
                      => tree[f] = Redirected(c, Len(<<"#","!","/","u","s","r","/","b","i","n","/","e","n","v"," ","p","y","t","h","o","n">>))
                /\ IsPython(f) /\ StartsWith(c, <<"#","!","/","u","s","r","/","b","i","n","/","p","y","t","h","o","n","3",".","9">>) => tree[f] = c
                /\ IsPython(f) /\ StartsWith(c, <<"#","!","/","u","s","r","/","b","i","n","/","e","n","v"," ","p","y","t","h","o","n","3">>) => tree[f] = c
                /\ ~IsPython(f) => tree[f] = c

\* a pass that rewrote the directive of run.py, kept what followed it, left
\* m.pyc alone although it starts with the same directive
C6_Witness ==
    /\ passes = 1
    /\ python_exec = <<"/","o","p","t","/","p","y","3">>
    /\ tree0[<<"b","i","n","/","r","u","n",".","p","y">>] = <<"#","!","/","u","s","r","/","b","i","n","/","e","n","v"," ","p","y","t","h","o","n"," ","-","u","\n","x","\n">>
    /\ tree[<<"b","i","n","/","r","u","n",".","p","y">>] = <<"#","!","/","o","p","t","/","p","y","3"," ","-","u","\n","x","\n">>
    /\ tree0[<<"l","i","b","/","m",".","p","y","c">>] = <<"#","!","/","u","s","r","/","b","i","n","/","p","y","t","h","o","n","\n">>
    /\ tree[<<"l","i","b","/","m",".","p","y","c">>] = <<"#","!","/","u","s","r","/","b","i","n","/","p","y","t","h","o","n","\n">>

\* C6 as stated: a .py file that starts with '#!/usr/bin/python' or
\* '#!/usr/bin/python3.9' followed by white space, or with the bare
\* '#!/usr/bin/env python' followed by white space or the end of the file,
\* has that directive replaced by '#!<target>', the rest unchanged; one that
\* starts with '#!/usr/bin/env python3' is left as it is; other files are
\* never modified.
CE_C6_VersionedRewritten ==
    passes >= 1 =>
        \A f \in DOMAIN tree0 :
            LET c == tree0[f]
            IN  /\ IsPython(f) /\ Directive(c, <<"#","!","/","u","s","r","/","b","i","n","/","p","y","t","h","o","n">>, FALSE)
                      => tree[f] = Redirected(c, Len(<<"#","!","/","u","s","r","/","b","i","n","/","p","y","t","h","o","n">>))
                /\ IsPython(f) /\ Directive(c, <<"#","!","/","u","s","r","/","b","i","n","/","p","y","t","h","o","n","3",".","9">>, FALSE)
                      => tree[f] = Redirected(c, Len(<<"#","!","/","u","s","r","/","b","i","n","/","p","y","t","h","o","n","3",".","9">>))
                /\ IsPython(f) /\ Directive(c, <<"#","!","/","u","s","r","/","b","i","n","/","e","n","v"," ","p","y","t","h","o","n">>, TRUE)
                      => tree[f] = Redirected(c, Len(<<"#","!","/","u","s","r","/","b","i","n","/","e","n","v"," ","p","y","t","h","o","n">>))
                /\ IsPython(f) /\ StartsWith(c, <<"#","!","/","u","s","r","/","b","i","n","/","e","n","v"," ","p","y","t","h","o","n","3">>) => tree[f] = c
                /\ ~IsPython(f) => tree[f] = c

\* C10: a second pass with the same target changes no file and writes none,
\* and in any pass a file is written back only if its content changed.
CE_C10_SecondPassSilent ==
    /\ passes >= 1 => \A f \in written : tree[f] # tree0[f]
    /\ passes >= 2 => tree = tree0 /\ written = {}

----------------------------------------------------------------------------
(* Properties of fix_python3_install_space *)

\* C7: when setup.sh exists every '/lib/python<old>' in it becomes
\* '/lib/python<new>', and the file is not written when it holds no
\* '/lib/python<old>'; when setup.sh does not exist no file is created and
\* the call returns 0.
CE_C7_NoWriteWithoutMatch ==
    setup_call.made =>
        LET old_path == <<"/","l","i","b","/","p","y","t","h","o","n">> \o setup_call.old_python
            new_path == <<"/","l","i","b","/","p","y","t","h","o","n">> \o Str(setup_call.new_python)
        IN  IF setup_sh0.exists
            THEN /\ setup_sh.exists
                 /\ setup_sh.contents = Replace(setup_sh0.contents, old_path, new_path)
                 /\ ~Contains(setup_sh0.contents, old_path) => setup_call.writes = 0
            ELSE /\ ~setup_sh.exists
                 /\ setup_call.writes = 0
                 /\ setup_call.ret = 0

----------------------------------------------------------------------------
(* Properties of renamepath *)

\* C9: a call of renamepath that follows a successful one with the same
\* source and destination fails and leaves the file system as it was before
\* the call.
CE_C9_RerunChangesNothing ==
    rename_calls >= 2 /\ rename_prev = "0" =>
        /\ rename_ret = "raised"
        /\ fs = fs0

====
